---- MODULE Spec2Model ----
(***************************************************************************)
(* Model of scripts/clean-menu-data.py: the classifier should_remove, the  *)
(* file loop of process_files, and the SQL report it prints and writes.    *)
(*                                                                         *)
(* A Python str is a sequence of one-character strings, a dict is a        *)
(* function whose DOMAIN is its key set, a list is a sequence.  Text       *)
(* (stdout, the SQL file) is a sequence of lines; a line is a record       *)
(* [kind, s, args]: s is the line's literal with {} holes, args fills      *)
(* them, kind says whether the line starts with "--" (comment), is empty   *)
(* (blank), or is anything else (sql / info).                              *)
(***************************************************************************)
EXTENDS Integers, Sequences, FiniteSets, TLC

VARIABLES
    APPLY,              \* module constant APPLY of this invocation
    disk,               \* data/jsons/*_raw.json: file name -> content
    sqlFile,            \* content of cleanup_menu_items.sql, or NoFile
    pc,                 \* "start" | "loop" | "done" | "aborted"
    files,              \* process_files: files
    k,                  \* index in files of the next file of the for loop
    total_removed,      \* process_files: total_removed
    total_kept,         \* process_files: total_kept
    all_removed_items,  \* process_files: all_removed_items
    stdout,             \* lines printed by this invocation
    opened,             \* history: files opened for reading, in order
    written,            \* history: menu files rewritten by this invocation
    disk0,              \* history: disk before the first invocation
    diskStart,          \* history: disk when this invocation started
    sqlStart,           \* history: sqlFile when this invocation started
    firstRun,           \* history: "none" | "apply" | "dry" | "aborted"
    item,               \* classifier harness: the argument of should_remove
    result              \* classifier harness: its return value, or NotCalled

vars == <<APPLY, disk, sqlFile, pc, files, k, total_removed, total_kept,
          all_removed_items, stdout, opened, written, disk0, diskStart,
          sqlStart, firstRun, item, result>>

-----------------------------------------------------------------------------
(* Bounds of the model.                                                    *)

MaxFiles == 2
MaxItems == 3
MaxNameLen == 4

-----------------------------------------------------------------------------
(* Python str, dict and list primitives.                                   *)

UpperCase == <<"A","B","C","D","E","F","G","H","I","J","K","L","M",
               "N","O","P","Q","R","S","T","U","V","W","X","Y","Z">>
LowerCase == <<"a","b","c","d","e","f","g","h","i","j","k","l","m",
               "n","o","p","q","r","s","t","u","v","w","x","y","z">>

LowerOf == [c \in {UpperCase[i] : i \in 1..26} |->
               LowerCase[CHOOSE i \in 1..26 : UpperCase[i] = c]]

LowerChar(c) == IF c \in DOMAIN LowerOf THEN LowerOf[c] ELSE c

\* str.lower()
Lower(s) == [i \in 1..Len(s) |-> LowerChar(s[i])]

\* p in s  (substring test)
Contains(p, s) ==
    \E i \in 0..(Len(s) - Len(p)) : \A j \in 1..Len(p) : s[i + j] = p[j]

\* s.replace("'", "''")
RECURSIVE Escape(_)
Escape(s) ==
    IF s = <<>> THEN <<>>
    ELSE (IF Head(s) = "'" THEN <<"'", "'">> ELSE <<Head(s)>>) \o Escape(Tail(s))

Digits == <<"0","1","2","3","4","5","6","7","8","9">>

RECURSIVE NatToStr(_)
NatToStr(n) ==
    IF n < 10 THEN <<Digits[n + 1]>>
    ELSE NatToStr(n \div 10) \o <<Digits[(n % 10) + 1]>>

\* str(n) / f"{n}" of an int
IntToStr(n) == IF n < 0 THEN <<"-">> \o NatToStr(0 - n) ELSE NatToStr(n)

\* d.get(key, default)
Get(d, key, default) == IF key \in DOMAIN d THEN d[key] ELSE default

\* data[key] = value
SetKey(d, key, value) == (key :> value) @@ d

\* sorted(..., reverse=True)
RECURSIVE sorted_Descending(_)
sorted_Descending(S) ==
    IF S = {} THEN <<>>
    ELSE LET m == CHOOSE x \in S : \A y \in S : x >= y
         IN  <<m>> \o sorted_Descending(S \ {m})

\* sorted(S) of a set of file names
RECURSIVE sorted(_)
sorted(S) ==
    IF S = {} THEN <<>>
    ELSE LET m == CHOOSE x \in S : \A y \in S : x <= y
         IN  <<m>> \o sorted(S \ {m})

-----------------------------------------------------------------------------
(* should_remove                                                           *)

CALORIE_THRESHOLD == 100

NoMacros == [protein |-> 0]

kids_patterns ==
    << <<"k","i","d","'","s">>,
       <<"k","i","d","s">>,
       <<"k","i","d"," ">>,
       <<"c","h","i","l","d","r","e","n">>,
       <<"k","i","d","d","i","e">> >>

S_kids_item == <<"k","i","d","s","_","i","t","e","m">>
S_kids_open == <<" ","(","c","a","l","=">>
S_low_open  == <<"l","o","w","_","c","a","l"," ","(">>
S_low_close == <<" ","c","a","l",")">>

\* item.get('macros', {}).get('calories', 999)
Calories(it) == Get(Get(it, "macros", NoMacros), "calories", 999)

\* the calorie rule tested before the kids rule
should_remove_LowCalFirst(it) ==
    LET name     == Lower(Get(it, "name", <<>>))
        category == Lower(Get(it, "category", <<>>))
        calories == Calories(it)
    IN  IF calories <= CALORIE_THRESHOLD
        THEN <<TRUE, S_low_open \o IntToStr(calories) \o S_low_close>>
        ELSE IF \E p \in 1..Len(kids_patterns) :
               Contains(kids_patterns[p], name) \/ Contains(kids_patterns[p], category)
        THEN <<TRUE, S_kids_item \o S_kids_open \o IntToStr(calories) \o <<")">> >>
        ELSE <<FALSE, <<>> >>

\* missing calories read as 0 instead of 999
should_remove_ZeroDefault(it) ==
    LET name     == Lower(Get(it, "name", <<>>))
        category == Lower(Get(it, "category", <<>>))
        calories == Get(Get(it, "macros", NoMacros), "calories", 0)
    IN  IF \E p \in 1..Len(kids_patterns) :
               Contains(kids_patterns[p], name) \/ Contains(kids_patterns[p], category)
        THEN <<TRUE, S_kids_item \o S_kids_open \o IntToStr(calories) \o <<")">> >>
        ELSE IF calories <= CALORIE_THRESHOLD
        THEN <<TRUE, S_low_open \o IntToStr(calories) \o S_low_close>>
        ELSE <<FALSE, <<>> >>

should_remove(it) ==
    LET name     == Lower(Get(it, "name", <<>>))
        category == Lower(Get(it, "category", <<>>))
        calories == Calories(it)
    IN  IF \E p \in 1..Len(kids_patterns) :
               Contains(kids_patterns[p], name) \/ Contains(kids_patterns[p], category)
        THEN <<TRUE, S_kids_item \o S_kids_open \o IntToStr(calories) \o <<")">> >>
        ELSE IF calories <= CALORIE_THRESHOLD
        THEN <<TRUE, S_low_open \o IntToStr(calories) \o S_low_close>>
        ELSE <<FALSE, <<>> >>

-----------------------------------------------------------------------------
(* Text: a sequence of tokens.  Tok(s, args) is the literal s with its {}  *)
(* holes filled by args (each a str); NL is "\n".  print(x) emits x and    *)
(* NL, f.write(x) emits x.                                                 *)

Tok(s, args) == [s |-> s, args |-> args]
NL == Tok("\n", <<>>)
print(toks) == toks \o <<NL>>

Rule70 == "======================================================================"

\* f"  (restaurant_name = '{escaped_restaurant}' AND name = '{escaped_name}')"
Condition(rec) ==
    Tok("  (restaurant_name = '{}' AND name = '{}')",
        <<Escape(rec.restaurant_name), Escape(rec.name)>>)

\* " OR\n".join(conditions)
RECURSIVE JoinOr(_)
JoinOr(conds) ==
    IF conds = <<>> THEN <<>>
    ELSE IF Len(conds) = 1 THEN <<Head(conds)>>
    ELSE <<Head(conds), Tok(" OR", <<>>), NL>> \o JoinOr(Tail(conds))

\* every record taken for a kids record
KidsItems_All(recs) == recs

\* [i for i in all_removed_items if 'kids_item' in i['reason']]
RECURSIVE KidsItems(_)
KidsItems(recs) ==
    IF recs = <<>> THEN <<>>
    ELSE (IF Contains(S_kids_item, Head(recs).reason) THEN <<Head(recs)>> ELSE <<>>)
         \o KidsItems(Tail(recs))

Conditions(kids_items) == [i \in 1..Len(kids_items) |-> Condition(kids_items[i])]

-----------------------------------------------------------------------------
(* Files.                                                                  *)

NoFile == <<Tok("(no such file)", <<>>)>>

Malformed == [text |-> "garbage"]

\* json.dump(data, f, indent=4, ensure_ascii=False)
json_dump(data) == [text |-> "json", indent |-> 4, value |-> data]

json_ok(content) == content.text = "json"

\* json.load(f), of a well-formed file
json_load(content) == content.value

\* os.path.basename(filepath) of the file named f
Basename(f) == <<Digits[f + 1]>> \o <<"_","r","a","w",".","j","s","o","n">>

-----------------------------------------------------------------------------
(* The body of the for loop over items (lines 66-76).                      *)

RemovalRecord(restaurant, it, reason) ==
    [restaurant_name |-> restaurant, name |-> it.name, reason |-> reason]

\* kept.insert(0, item) in place of kept.append(item)
RECURSIVE Partition_KeptReversed(_, _, _)
Partition_KeptReversed(items, restaurant, acc) ==
    IF items = <<>> THEN acc
    ELSE LET it == Head(items)
             r  == should_remove(it)
         IN  IF r[1]
             THEN IF "name" \notin DOMAIN it
                  THEN [acc EXCEPT !.raised = TRUE]
                  ELSE Partition_KeptReversed(Tail(items), restaurant,
                         [acc EXCEPT !.removed = Append(@, <<it, r[2]>>),
                                     !.records = Append(@, RemovalRecord(restaurant, it, r[2]))])
             ELSE Partition_KeptReversed(Tail(items), restaurant,
                         [acc EXCEPT !.kept = <<it>> \o @])

\* a removed item appended to kept as well
RECURSIVE Partition_KeepsRemoved(_, _, _)
Partition_KeepsRemoved(items, restaurant, acc) ==
    IF items = <<>> THEN acc
    ELSE LET it == Head(items)
             r  == should_remove(it)
         IN  IF r[1]
             THEN IF "name" \notin DOMAIN it
                  THEN [acc EXCEPT !.raised = TRUE]
                  ELSE Partition_KeepsRemoved(Tail(items), restaurant,
                         [acc EXCEPT !.removed = Append(@, <<it, r[2]>>),
                                     !.kept = Append(@, it),
                                     !.records = Append(@, RemovalRecord(restaurant, it, r[2]))])
             ELSE Partition_KeepsRemoved(Tail(items), restaurant,
                         [acc EXCEPT !.kept = Append(@, it)])

RECURSIVE Partition(_, _, _)
Partition(items, restaurant, acc) ==
    IF items = <<>> THEN acc
    ELSE LET it == Head(items)
             r  == should_remove(it)
         IN  IF r[1]
             THEN IF "name" \notin DOMAIN it
                  THEN [acc EXCEPT !.raised = TRUE]          \* KeyError: 'name'
                  ELSE Partition(Tail(items), restaurant,
                         [acc EXCEPT !.removed = Append(@, <<it, r[2]>>),
                                     !.records = Append(@, RemovalRecord(restaurant, it, r[2]))])
             ELSE Partition(Tail(items), restaurant,
                         [acc EXCEPT !.kept = Append(@, it)])

EmptyPartition == [kept |-> <<>>, removed |-> <<>>, records |-> <<>>, raised |-> FALSE]

\* what one iteration of "for filepath in files" computes from a parsed file
Iteration(f, data) ==
    LET restaurant == Get(data, "restaurant_name", Basename(f))
        items      == Get(data, "items", <<>>)
    IN  [restaurant |-> restaurant, items |-> items,
         part |-> Partition(items, restaurant, EmptyPartition)]

\* lines 78-83
RemovedLine(pair) ==
    LET it  == pair[1]
        m   == Get(it, "macros", NoMacros)
        cal == IF "calories" \in DOMAIN m THEN IntToStr(m.calories) ELSE <<"?">>
    IN  print(<<Tok("    (cross) [{} cal] {} ({}) (arrow) {}",
                    <<cal, it.name, Get(it, "category", <<>>), pair[2]>>)>>)

RECURSIVE RemovedLines(_)
RemovedLines(removed) ==
    IF removed = <<>> THEN <<>>
    ELSE RemovedLine(Head(removed)) \o RemovedLines(Tail(removed))

FileBlock(f, it) ==
    IF it.part.removed = <<>> THEN <<>>
    ELSE print(<<NL, Tok("--- {} ({}) ---", <<it.restaurant, Basename(f)>>)>>)
         \o print(<<Tok("    Original: {} | Removing: {} | Keeping: {}",
                        <<IntToStr(Len(it.items)), IntToStr(Len(it.part.removed)),
                          IntToStr(Len(it.part.kept))>>)>>)
         \o RemovedLines(it.part.removed)

-----------------------------------------------------------------------------
(* Lines 94-135: what process_files prints after the loop.                 *)

Threshold == <<IntToStr(CALORIE_THRESHOLD)>>

Summary(removedCount, keptCount) ==
    print(<<NL, Tok(Rule70, <<>>)>>)
    \o print(<<Tok("SUMMARY", <<>>)>>)
    \o print(<<Tok(Rule70, <<>>)>>)
    \o print(<<Tok("Total items removed: {}", <<IntToStr(removedCount)>>)>>)
    \o print(<<Tok("Total items kept:    {}", <<IntToStr(keptCount)>>)>>)

DryRunWarning ==
    print(<<NL, Tok("(warning)  DRY RUN (dash) No files were modified.", <<>>)>>)
    \o print(<<Tok("    Run with --apply to modify JSON files:", <<>>)>>)
    \o print(<<Tok("    python3 scripts/clean-menu-data.py --apply", <<>>)>>)

SqlBanner ==
    print(<<NL, Tok(Rule70, <<>>)>>)
    \o print(<<Tok("SQL TO DELETE FROM DATABASE", <<>>)>>)
    \o print(<<Tok(Rule70, <<>>)>>)

\* the console's kids DELETE printed without the "if kids_items" test
ConsoleSql_NoGuard(recs) ==
    LET kids_items == KidsItems(recs)
    IN  print(<<Tok("-- Run this in Supabase SQL Editor to remove these items from menu_items table", <<>>)>>)
        \o print(<<>>)
        \o print(<<Tok("-- Delete kids menu items", <<>>)>>)
        \o print(<<Tok("DELETE FROM menu_items WHERE", <<>>)>>)
        \o print(JoinOr(Conditions(kids_items)))
        \o print(<<Tok(";", <<>>)>>)
        \o print(<<>>)
        \o print(<<Tok("-- Delete low calorie / single ingredient items (<=100 cal)", <<>>)>>)
        \o print(<<Tok("DELETE FROM menu_items", <<>>)>>)
        \o print(<<Tok("WHERE (macros->>'calories')::int <= {};", Threshold)>>)
        \o print(<<>>)
        \o print(<<Tok("-- Verify: Count remaining items", <<>>)>>)
        \o print(<<Tok("SELECT COUNT(*) as remaining_items FROM menu_items;", <<>>)>>)
        \o print(<<>>)

\* lines 109-135
ConsoleSql(recs) ==
    LET kids_items == KidsItems(recs)
    IN  print(<<Tok("-- Run this in Supabase SQL Editor to remove these items from menu_items table", <<>>)>>)
        \o print(<<>>)
        \o print(<<Tok("-- Delete kids menu items", <<>>)>>)
        \o (IF kids_items # <<>>
            THEN print(<<Tok("DELETE FROM menu_items WHERE", <<>>)>>)
                 \o print(JoinOr(Conditions(kids_items)))
                 \o print(<<Tok(";", <<>>)>>)
            ELSE print(<<Tok("-- No kids items found", <<>>)>>))
        \o print(<<>>)
        \o print(<<Tok("-- Delete low calorie / single ingredient items (<=100 cal)", <<>>)>>)
        \o print(<<Tok("DELETE FROM menu_items", <<>>)>>)
        \o print(<<Tok("WHERE (macros->>'calories')::int <= {};", Threshold)>>)
        \o print(<<>>)
        \o print(<<Tok("-- Verify: Count remaining items", <<>>)>>)
        \o print(<<Tok("SELECT COUNT(*) as remaining_items FROM menu_items;", <<>>)>>)
        \o print(<<>>)

\* lines 139-160: everything written to cleanup_menu_items.sql
FileSql(recs, removedCount) ==
    LET kids_items == KidsItems(recs)
    IN  <<Tok("-- AUTO-GENERATED: Cleanup script for menu_items table", <<>>), NL>>
        \o <<Tok("-- Generated by clean-menu-data.py", <<>>), NL>>
        \o <<Tok("-- Items to remove: {}", <<IntToStr(removedCount)>>), NL, NL>>
        \o <<Tok("-- Step 1: Delete kids menu items by name", <<>>), NL>>
        \o (IF kids_items # <<>>
            THEN <<Tok("DELETE FROM menu_items WHERE", <<>>), NL>>
                 \o JoinOr(Conditions(kids_items))
                 \o <<Tok(";", <<>>), NL, NL>>
            ELSE <<>>)
        \o <<Tok("-- Step 2: Delete all items with calories <= {}", Threshold), NL>>
        \o <<Tok("DELETE FROM menu_items", <<>>), NL>>
        \o <<Tok("WHERE (macros->>'calories')::int <= {};", Threshold), NL, NL>>
        \o <<Tok("-- Step 3: Verify remaining count", <<>>), NL>>
        \o <<Tok("SELECT COUNT(*) as remaining_items FROM menu_items;", <<>>), NL>>

-----------------------------------------------------------------------------
(* The inputs: menu items, documents and disks within the bounds.          *)

S_Kids   == <<"K","i","d","s">>
S_KidsB  == <<"K","i","d","'","s"," ","B">>
S_Fries  == <<"F","r","i","e","s">>
S_Bowl   == <<"B","o","w","l">>
S_Tea    == <<"T","e","a">>
S_Sides  == <<"S","i","d","e","s">>
S_Mains  == <<"M","a","i","n","s">>
S_KMENU  == <<"K","I","D","S"," ","M","E","N","U">>
S_Joes   == <<"J","o","e","'","s">>
S_Url    == <<"u","r","l">>

Macros(c) == [calories |-> c]

ItemPool ==
    { [name |-> S_KidsB, category |-> S_Mains, macros |-> Macros(350)],
      [name |-> S_Fries, category |-> S_Sides, macros |-> Macros(80)],
      [name |-> S_Bowl,  category |-> S_Mains, macros |-> Macros(620)],
      [name |-> S_Bowl,  category |-> S_KMENU, macros |-> Macros(90)],
      [name |-> S_Tea,   category |-> S_Sides],
      [category |-> S_Kids] }

\* documents holding exactly n items
DocsOfSize(n) ==
    LET lists == [1..n -> ItemPool]
    IN  { [items |-> l, source |-> S_Url] : l \in lists }
        \cup { [restaurant_name |-> S_Joes, items |-> l, source |-> S_Url] : l \in lists }
        \cup (IF n = 0 THEN { [restaurant_name |-> S_Joes, source |-> S_Url] } ELSE {})

ContentsOfSize(n) ==
    { [text |-> "json", indent |-> 2, value |-> d] : d \in DocsOfSize(n) }
    \cup (IF n = 0 THEN {Malformed} ELSE {})

\* the disks of n files holding at most budget items in all
RECURSIVE Disks(_, _)
Disks(n, budget) ==
    IF n = 0 THEN { <<>> }
    ELSE UNION { { Append(d, c) : d \in Disks(n - 1, budget - j), c \in ContentsOfSize(j) }
                 : j \in 0..budget }

-----------------------------------------------------------------------------
(* The classifier harness: should_remove applied to one item.              *)

NotCalled == <<FALSE, <<"?">> >>

Alphabet == {"K", "i", "d", "s", "'", " "}

NamesUpTo(n) == UNION { [1..m -> Alphabet] : m \in 0..n }

S_children == <<"C","h","i","l","d","r","e","n">>
S_Kiddie   == <<"K","i","d","d","i","e"," ","C","u","p">>
S_Kidney   == <<"K","i","d","n","e","y">>
S_kidB     == <<"k","i","d"," ","b">>

HarnessNames == NamesUpTo(MaxNameLen) \cup {S_KidsB, S_children, S_Kiddie, S_Kidney, S_kidB, S_Bowl}
HarnessCategories == {S_Mains, S_KMENU, S_children}
HarnessCalories == {-1, 99, 100, 101}

Opt(key, o) == IF o = <<>> THEN <<>> ELSE key :> o[1]

HarnessItems ==
    { Opt("name", n) @@ Opt("category", c) @@ Opt("macros", m) :
        n \in {<<>>} \cup { <<x>> : x \in HarnessNames },
        c \in {<<>>} \cup { <<x>> : x \in HarnessCategories },
        m \in {<<>>, <<NoMacros>>} \cup { <<Macros(x)>> : x \in HarnessCalories } }

EmptyItem == [category |-> <<>>]

-----------------------------------------------------------------------------
(* One invocation of the script, and a second one after it.                *)

Init ==
    /\ APPLY \in BOOLEAN                      \* line 19
    /\ disk \in UNION { Disks(n, MaxItems) : n \in 0..MaxFiles }
    /\ sqlFile = NoFile
    /\ pc = "start"
    /\ files = <<>>
    /\ k = 1
    /\ total_removed = 0
    /\ total_kept = 0
    /\ all_removed_items = <<>>
    /\ stdout = <<>>
    /\ opened = <<>>
    /\ written = {}
    /\ disk0 = disk
    /\ diskStart = disk
    /\ sqlStart = sqlFile
    /\ firstRun = "none"
    /\ item = EmptyItem
    /\ result = NotCalled

\* lines 42-53
Start ==
    /\ pc = "start"
    /\ files' = sorted(DOMAIN disk)
    /\ total_removed' = 0
    /\ total_kept' = 0
    /\ all_removed_items' = <<>>
    /\ stdout' = stdout
          \o print(<<Tok(Rule70, <<>>)>>)
          \o print(<<Tok("MENU DATA CLEANUP {}",
                         <<IF ~APPLY THEN <<"(","D","R","Y"," ","R","U","N",")">>
                                     ELSE <<"(","A","P","P","L","Y","I","N","G",")">> >>)>>)
          \o print(<<Tok(Rule70, <<>>)>>)
          \o print(<<Tok("Calorie threshold: <= {}", Threshold)>>)
          \o print(<<Tok("Files to process: {}", <<IntToStr(Len(files'))>>)>>)
          \o print(<<>>)
    /\ k' = 1
    /\ pc' = "loop"
    /\ UNCHANGED <<APPLY, disk, sqlFile, opened, written, disk0, diskStart,
                   sqlStart, firstRun, item, result>>

\* the file rewritten whenever an item was removed, APPLY or not
Rewrites_IgnoresApply(removed) == removed # <<>>

\* line 88: if APPLY and removed
Rewrites(removed) == APPLY /\ removed # <<>>

\* lines 55-92, an iteration that raises nothing
ProcessFile ==
    /\ pc = "loop"
    /\ k <= Len(files)
    /\ LET f == files[k] IN
       /\ json_ok(disk[f])
       /\ LET it == Iteration(f, json_load(disk[f])) IN
          /\ ~it.part.raised
          /\ all_removed_items' = all_removed_items \o it.part.records
          /\ total_removed' = total_removed + Len(it.part.removed)
          /\ total_kept' = total_kept + Len(it.part.kept)
          /\ IF Rewrites(it.part.removed)
             THEN /\ disk' = [disk EXCEPT ![f] =
                                json_dump(SetKey(json_load(disk[f]), "items", it.part.kept))]
                  /\ written' = written \cup {f}
                  /\ stdout' = stdout \o FileBlock(f, it)
                                  \o print(<<Tok("    (check) File updated!", <<>>)>>)
             ELSE /\ UNCHANGED <<disk, written>>
                  /\ stdout' = stdout \o FileBlock(f, it)
       /\ opened' = Append(opened, f)
    /\ k' = k + 1
    /\ UNCHANGED <<APPLY, sqlFile, pc, files, disk0, diskStart, sqlStart,
                   firstRun, item, result>>

\* line 57: json.load raises on a file that is not JSON
ParseError ==
    /\ pc = "loop"
    /\ k <= Len(files)
    /\ ~json_ok(disk[files[k]])
    /\ opened' = Append(opened, files[k])
    /\ pc' = "aborted"
    /\ UNCHANGED <<APPLY, disk, sqlFile, files, k, total_removed, total_kept,
                   all_removed_items, stdout, written, disk0, diskStart,
                   sqlStart, firstRun, item, result>>

\* line 72: item['name'] raises KeyError on a removed item without a name
KeyError ==
    /\ pc = "loop"
    /\ k <= Len(files)
    /\ json_ok(disk[files[k]])
    /\ LET it == Iteration(files[k], json_load(disk[files[k]])) IN
       /\ it.part.raised
       /\ all_removed_items' = all_removed_items \o it.part.records
    /\ opened' = Append(opened, files[k])
    /\ pc' = "aborted"
    /\ UNCHANGED <<APPLY, disk, sqlFile, files, k, total_removed, total_kept,
                   stdout, written, disk0, diskStart, sqlStart, firstRun,
                   item, result>>

\* lines 90-91: open(filepath, 'w') raises OSError (the file stays as it
\* was), or the write fails after the open truncated the file
WriteError ==
    /\ pc = "loop"
    /\ k <= Len(files)
    /\ json_ok(disk[files[k]])
    /\ LET f  == files[k]
           it == Iteration(f, json_load(disk[f]))
       IN  /\ ~it.part.raised
           /\ Rewrites(it.part.removed)
           /\ all_removed_items' = all_removed_items \o it.part.records
           /\ total_removed' = total_removed + Len(it.part.removed)
           /\ total_kept' = total_kept + Len(it.part.kept)
           /\ stdout' = stdout \o FileBlock(f, it)
           /\ \E truncated \in BOOLEAN :
                 disk' = IF truncated THEN [disk EXCEPT ![f] = Malformed] ELSE disk
    /\ opened' = Append(opened, files[k])
    /\ pc' = "aborted"
    /\ UNCHANGED <<APPLY, sqlFile, files, k, written, disk0, diskStart,
                   sqlStart, firstRun, item, result>>

\* the SQL file written in apply mode only
Finish_SqlFileOnApplyOnly ==
    /\ pc = "loop"
    /\ k > Len(files)
    /\ stdout' = stdout
          \o Summary(total_removed, total_kept)
          \o (IF ~APPLY THEN DryRunWarning ELSE <<>>)
          \o SqlBanner
          \o ConsoleSql(all_removed_items)
          \o print(<<Tok("(page) SQL also saved to: cleanup_menu_items.sql", <<>>)>>)
    /\ sqlFile' = IF APPLY THEN FileSql(all_removed_items, total_removed) ELSE sqlFile
    /\ pc' = "done"
    /\ UNCHANGED <<APPLY, disk, files, k, total_removed, total_kept,
                   all_removed_items, opened, written, disk0, diskStart,
                   sqlStart, firstRun, item, result>>

\* lines 94-162
Finish ==
    /\ pc = "loop"
    /\ k > Len(files)
    /\ stdout' = stdout
          \o Summary(total_removed, total_kept)
          \o (IF ~APPLY THEN DryRunWarning ELSE <<>>)
          \o SqlBanner
          \o ConsoleSql(all_removed_items)
          \o print(<<Tok("(page) SQL also saved to: cleanup_menu_items.sql", <<>>)>>)
    /\ sqlFile' = FileSql(all_removed_items, total_removed)
    /\ pc' = "done"
    /\ UNCHANGED <<APPLY, disk, files, k, total_removed, total_kept,
                   all_removed_items, opened, written, disk0, diskStart,
                   sqlStart, firstRun, item, result>>

\* the operator runs the script a second time (lines 17-19, 165-166)
Invoke ==
    /\ firstRun = "none"
    /\ pc \in {"done", "aborted"}
    /\ firstRun' = IF pc = "aborted" THEN "aborted" ELSE IF APPLY THEN "apply" ELSE "dry"
    /\ APPLY' \in BOOLEAN
    /\ pc' = "start"
    /\ files' = <<>>
    /\ k' = 1
    /\ total_removed' = 0
    /\ total_kept' = 0
    /\ all_removed_items' = <<>>
    /\ stdout' = <<>>
    /\ opened' = <<>>
    /\ written' = {}
    /\ diskStart' = disk
    /\ sqlStart' = sqlFile
    /\ UNCHANGED <<disk, sqlFile, disk0, item, result>>

Next == Start \/ ProcessFile \/ ParseError \/ KeyError \/ WriteError \/ Finish \/ Invoke

Spec == Init /\ [][Next]_vars

-----------------------------------------------------------------------------
(* The classifier on its own: one call of should_remove.                   *)

InitHarness ==
    /\ item \in HarnessItems
    /\ result = NotCalled
    /\ APPLY = FALSE
    /\ disk = <<>>
    /\ sqlFile = NoFile
    /\ pc = "harness"
    /\ files = <<>>
    /\ k = 1
    /\ total_removed = 0
    /\ total_kept = 0
    /\ all_removed_items = <<>>
    /\ stdout = <<>>
    /\ opened = <<>>
    /\ written = {}
    /\ disk0 = <<>>
    /\ diskStart = <<>>
    /\ sqlStart = NoFile
    /\ firstRun = "none"

Classify ==
    /\ pc = "harness"
    /\ result = NotCalled
    /\ result' = should_remove(item)
    /\ pc' = "returned"
    /\ UNCHANGED <<APPLY, disk, sqlFile, files, k, total_removed, total_kept,
                   all_removed_items, stdout, opened, written, disk0,
                   diskStart, sqlStart, firstRun, item>>

NextHarness == Classify

SpecHarness == InitHarness /\ [][NextHarness]_vars

TypeOK == pc \in {"start", "loop", "done", "aborted", "harness", "returned"}

-----------------------------------------------------------------------------
(* Vocabulary of the properties.                                           *)

\* the items of a list that the classifier keeps, in their order
RECURSIVE Surviving(_)
Surviving(items) ==
    IF items = <<>> THEN <<>>
    ELSE (IF should_remove(Head(items))[1] THEN <<>> ELSE <<Head(items)>>)
         \o Surviving(Tail(items))

ItemsOf(content) == Get(content.value, "items", <<>>)

\* the lower-cased name or category contains a kids pattern
MatchesKids(it) ==
    LET n == Lower(Get(it, "name", <<>>))
        c == Lower(Get(it, "category", <<>>))
    IN  \E p \in { <<"k","i","d","'","s">>, <<"k","i","d","s">>, <<"k","i","d"," ">>,
                   <<"c","h","i","l","d","r","e","n">>, <<"k","i","d","d","i","e">> } :
            Contains(p, n) \/ Contains(p, c)

\* the calorie value of an item, 999 when it has no macros or no calories
CalorieValue(it) ==
    IF "macros" \in DOMAIN it /\ "calories" \in DOMAIN it.macros
    THEN it.macros.calories ELSE 999

CommentLiterals ==
    { "-- Run this in Supabase SQL Editor to remove these items from menu_items table",
      "-- Delete kids menu items",
      "-- No kids items found",
      "-- Delete low calorie / single ingredient items (<=100 cal)",
      "-- Verify: Count remaining items",
      "-- AUTO-GENERATED: Cleanup script for menu_items table",
      "-- Generated by clean-menu-data.py",
      "-- Items to remove: {}",
      "-- Step 1: Delete kids menu items by name",
      "-- Step 2: Delete all items with calories <= {}",
      "-- Step 3: Verify remaining count" }

\* the tokens of the lines of a text that are not comments, without the
\* line ends: the SQL statements of the text
RECURSIVE Stmts(_, _, _)
Stmts(text, atStart, inComment) ==
    IF text = <<>> THEN <<>>
    ELSE LET t == Head(text) IN
         IF t = NL THEN Stmts(Tail(text), TRUE, FALSE)
         ELSE IF inComment \/ (atStart /\ t.s \in CommentLiterals)
              THEN Stmts(Tail(text), FALSE, TRUE)
              ELSE <<t>> \o Stmts(Tail(text), FALSE, FALSE)

Statements(text) == Stmts(text, TRUE, FALSE)

\* the (restaurant, item) pairs of the kids items of the files 1..n of a
\* disk, files in ascending name order, items in file order
RECURSIVE KidsOfItems(_, _)
KidsOfItems(restaurant, items) ==
    IF items = <<>> THEN <<>>
    ELSE (IF MatchesKids(Head(items)) THEN << <<restaurant, Head(items).name>> >> ELSE <<>>)
         \o KidsOfItems(restaurant, Tail(items))

RECURSIVE KidsOfDisk(_, _)
KidsOfDisk(d, n) ==
    IF n = 0 THEN <<>>
    ELSE KidsOfDisk(d, n - 1)
         \o KidsOfItems(Get(d[n].value, "restaurant_name", Basename(n)), ItemsOf(d[n]))

PairCondition(pair) ==
    Tok("  (restaurant_name = '{}' AND name = '{}')", <<Escape(pair[1]), Escape(pair[2])>>)

RECURSIVE OrJoined(_)
OrJoined(pairs) ==
    IF pairs = <<>> THEN <<>>
    ELSE <<PairCondition(Head(pairs))>>
         \o (IF Len(pairs) > 1 THEN <<Tok(" OR", <<>>)>> ELSE <<>>)
         \o OrJoined(Tail(pairs))

ThresholdDelete ==
    << Tok("DELETE FROM menu_items", <<>>),
       Tok("WHERE (macros->>'calories')::int <= {};", <<IntToStr(100)>>) >>

CountSelect == << Tok("SELECT COUNT(*) as remaining_items FROM menu_items;", <<>>) >>

ExpectedStatements(pairs) ==
    (IF pairs = <<>> THEN <<>>
     ELSE <<Tok("DELETE FROM menu_items WHERE", <<>>)>> \o OrJoined(pairs) \o <<Tok(";", <<>>)>>)
    \o ThresholdDelete \o CountSelect

IsKidsReason(reason) ==
    Len(reason) >= Len(S_kids_item) /\ SubSeq(reason, 1, Len(S_kids_item)) = S_kids_item

-----------------------------------------------------------------------------
(* C1.  After an apply-mode run that completes, every menu file holds the  *)
(* items of the file it started from that the classifier keeps, in their   *)
(* original order and unchanged, and every other top-level field of the    *)
(* document is as it was; nothing is added.                                *)
C1_ApplyWritesExactlyTheKeptItems ==
    (pc = "done" /\ APPLY) =>
        \A f \in DOMAIN disk :
            /\ json_ok(disk[f])
            /\ ItemsOf(disk[f]) = Surviving(ItemsOf(diskStart[f]))
            /\ DOMAIN disk[f].value \ {"items"} = DOMAIN diskStart[f].value \ {"items"}
            /\ \A key \in DOMAIN diskStart[f].value \ {"items"} :
                   disk[f].value[key] = diskStart[f].value[key]

C1_Witness ==
    /\ pc = "done" /\ APPLY
    /\ \E f \in written :
          /\ Len(ItemsOf(disk[f])) = 2
          /\ ItemsOf(disk[f])[1] # ItemsOf(disk[f])[2]
          /\ ItemsOf(diskStart[f])[2] \notin {ItemsOf(disk[f])[1], ItemsOf(disk[f])[2]}
          /\ "restaurant_name" \in DOMAIN disk[f].value

(* C2.  A dry run that completes leaves the content of every menu file    *)
(* exactly as it was before the run.                                       *)
C2_DryRunLeavesMenuFiles ==
    (pc = "done" /\ ~APPLY) => disk = diskStart

C2_Witness ==
    pc = "done" /\ ~APPLY /\ total_removed >= 2 /\ Len(files) = 2

(* C3.  A second apply run after a completed apply run removes nothing:    *)
(* it records no removal, rewrites no menu file, does not abort, and       *)
(* leaves the files as the first run left them.                            *)
C3_SecondApplyRunRemovesNothing ==
    (firstRun = "apply" /\ APPLY) =>
        /\ pc # "aborted"
        /\ total_removed = 0
        /\ all_removed_items = <<>>
        /\ written = {}
        /\ disk = diskStart
        /\ \A f \in DOMAIN disk : \A i \in 1..Len(ItemsOf(disk[f])) :
               ~should_remove(ItemsOf(disk[f])[i])[1]

C3_Witness ==
    /\ firstRun = "apply" /\ APPLY /\ pc = "done"
    /\ \E f \in DOMAIN disk : disk[f] # disk0[f] /\ ItemsOf(disk[f]) # <<>>

(* C4.  An item whose lower-cased name or category contains a kids        *)
(* pattern is removed with the reason "kids_item (cal=<calories>)",        *)
(* whatever its calorie value is, 100 or less and absent (999) included.   *)
C4_KidsItemsAreRemoved ==
    (pc = "returned" /\ MatchesKids(item)) =>
        result = << TRUE,
                    <<"k","i","d","s","_","i","t","e","m"," ","(","c","a","l","=">>
                    \o IntToStr(CalorieValue(item)) \o <<")">> >>

C4_Witness ==
    /\ pc = "returned" /\ MatchesKids(item)
    /\ "name" \in DOMAIN item /\ item.name = <<"K","i","d"," ">>
    /\ "category" \in DOMAIN item /\ item.category = S_Mains
    /\ CalorieValue(item) = 99
    /\ result[1]

(* C5.  An item that matches no kids pattern is removed exactly when its   *)
(* calorie value is at most 100, with the reason "low_cal (<calories>      *)
(* cal)"; an item without macros or without calories counts as 999        *)
(* calories and is kept with the empty reason.                             *)
C5_LowCalorieRule ==
    (pc = "returned" /\ ~MatchesKids(item)) =>
        result = IF CalorieValue(item) <= 100
                 THEN << TRUE, <<"l","o","w","_","c","a","l"," ","(">>
                               \o IntToStr(CalorieValue(item)) \o <<" ","c","a","l",")">> >>
                 ELSE << FALSE, <<>> >>

C5_Witness ==
    /\ pc = "returned" /\ ~MatchesKids(item)
    /\ "name" \in DOMAIN item /\ item.name = S_Kidney
    /\ "macros" \in DOMAIN item /\ "calories" \notin DOMAIN item.macros
    /\ result = << FALSE, <<>> >>

(* C6.  The SQL file of a completed run, dry or apply, holds these         *)
(* statements in this order: the kids DELETE, with one (restaurant_name,   *)
(* name) condition per kids record, files in ascending name order and      *)
(* items in file order, joined by OR, and absent when there is no kids     *)
(* record; the DELETE of the rows of at most 100 calories; the SELECT      *)
(* that counts the rows.  Every other record is a low_cal record of at     *)
(* most 100 calories.                                                      *)
C6_SqlFileStatements ==
    pc = "done" =>
        /\ Statements(sqlFile) = ExpectedStatements(KidsOfDisk(diskStart, Len(diskStart)))
        /\ \A i \in 1..Len(all_removed_items) :
              \/ IsKidsReason(all_removed_items[i].reason)
              \/ \E n \in -1..100 :
                    all_removed_items[i].reason =
                        <<"l","o","w","_","c","a","l"," ","(">> \o IntToStr(n)
                        \o <<" ","c","a","l",")">>

C6_Witness ==
    /\ pc = "done"
    /\ Len(KidsItems(all_removed_items)) = 2
    /\ Len(all_removed_items) = 3
    /\ all_removed_items[1].restaurant_name # all_removed_items[3].restaurant_name
    /\ ~IsKidsReason(all_removed_items[2].reason)

\* the part of stdout printed by lines 109-135
ConsoleSqlSection(out) ==
    LET from == CHOOSE i \in 1..Len(out) :
                    out[i].s = "-- Run this in Supabase SQL Editor to remove these items from menu_items table"
        to   == CHOOSE i \in 1..Len(out) :
                    out[i].s = "(page) SQL also saved to: cleanup_menu_items.sql"
    IN  SubSeq(out, from, to - 1)

\* text a occurs in text b as one contiguous piece
OccursIn(a, b) ==
    \E i \in 0..(Len(b) - Len(a)) : SubSeq(b, i + 1, i + Len(a)) = a

\* the three lines the file starts with, the count among them
HeaderComment(count) ==
    <<Tok("-- AUTO-GENERATED: Cleanup script for menu_items table", <<>>), NL,
      Tok("-- Generated by clean-menu-data.py", <<>>), NL,
      Tok("-- Items to remove: {}", <<IntToStr(count)>>), NL, NL>>

(* C7, as claimed.  The SQL file is its header comment followed by the     *)
(* very text printed to the console.                                       *)
C7_FileIsHeaderPlusConsoleText ==
    pc = "done" =>
        LET h == HeaderComment(Len(all_removed_items)) IN
        /\ SubSeq(sqlFile, 1, Len(h)) = h
        /\ OccursIn(SubSeq(sqlFile, Len(h) + 1, Len(sqlFile)), stdout)

(* C7, amended.  The SQL statements printed to the console (the lines      *)
(* that are not comments) are the statements written to the file, with     *)
(* kids records and without; the file starts with a header comment whose   *)
(* count is the number of removal records of the run.                      *)
C7_SameStatementsOnConsoleAndInFile ==
    pc = "done" =>
        LET h == HeaderComment(Len(all_removed_items)) IN
        /\ SubSeq(sqlFile, 1, Len(h)) = h
        /\ Statements(ConsoleSqlSection(stdout)) = Statements(sqlFile)

C7_Witness ==
    /\ pc = "done"
    /\ Len(all_removed_items) = 2
    /\ KidsItems(all_removed_items) = <<>>
    /\ \E i \in 1..Len(stdout) : stdout[i].s = "-- No kids items found"

(* C8, as claimed.  Without --apply no file is created or overwritten,     *)
(* the SQL file included.                                                  *)
C8_DryRunWritesNoFile ==
    ~APPLY => (disk = diskStart /\ written = {} /\ sqlFile = sqlStart)

(* C8, amended.  Without --apply no menu file is created or overwritten    *)
(* at any point of the run; cleanup_menu_items.sql is the one file         *)
(* written, and it is written when the run completes.                      *)
C8_DryRunWritesOnlyTheSqlFile ==
    (~APPLY /\ pc \in {"start", "loop", "done", "aborted"}) =>
        /\ disk = diskStart
        /\ written = {}
        /\ pc # "done" => sqlFile = sqlStart
        /\ pc = "done" => sqlFile # NoFile

C8_Witness ==
    /\ ~APPLY /\ pc = "done"
    /\ sqlStart = NoFile /\ sqlFile # NoFile
    /\ total_removed > 0

(* C9.  Files are read in ascending name order.  When the run aborts at   *)
(* its k-th file, no later file has been read or rewritten, the k-th file  *)
(* has not been rewritten with a result, no summary has been printed, the  *)
(* SQL file is as it was before the run, and nothing is rolled back: in    *)
(* apply mode each earlier file that had removals stays rewritten.         *)
C9_AbortHaltsTheRun ==
    /\ pc \in {"loop", "done", "aborted"} =>
          /\ \A i, j \in 1..Len(files) : i < j => files[i] < files[j]
          /\ { files[i] : i \in 1..Len(files) } = DOMAIN disk
          /\ Len(opened) <= Len(files)
          /\ opened = SubSeq(files, 1, Len(opened))
    /\ pc = "aborted" =>
          /\ Len(opened) = k
          /\ files[k] \notin written
          /\ \A j \in (k + 1)..Len(files) :
                files[j] \notin written /\ disk[files[j]] = diskStart[files[j]]
          /\ \A i \in 1..Len(stdout) : stdout[i].s # "SUMMARY"
          /\ sqlFile = sqlStart
          /\ \A j \in 1..(k - 1) :
                LET f == files[j] IN
                IF APPLY /\ Surviving(ItemsOf(diskStart[f])) # ItemsOf(diskStart[f])
                THEN /\ f \in written
                     /\ json_ok(disk[f])
                     /\ ItemsOf(disk[f]) = Surviving(ItemsOf(diskStart[f]))
                ELSE disk[f] = diskStart[f]

C9_Witness ==
    /\ pc = "aborted" /\ APPLY /\ k = 2
    /\ files[1] \in written
    /\ disk[files[1]] # diskStart[files[1]]
    /\ json_ok(disk[files[2]])
    /\ \E i \in 1..Len(ItemsOf(disk[files[2]])) :
          "name" \notin DOMAIN ItemsOf(disk[files[2]])[i]

\* the rows of menu_items that correspond to the items of a disk of n files
RECURSIVE RowsOfItems(_, _)
RowsOfItems(restaurant, items) ==
    IF items = <<>> THEN <<>>
    ELSE << <<restaurant, Head(items)>> >> \o RowsOfItems(restaurant, Tail(items))

RECURSIVE Rows(_, _)
Rows(d, n) ==
    IF n = 0 THEN <<>>
    ELSE Rows(d, n - 1)
         \o RowsOfItems(Get(d[n].value, "restaurant_name", Basename(n)), ItemsOf(d[n]))

\* the value of an SQL string literal: '' stands for one quote
RECURSIVE Unescape(_)
Unescape(s) ==
    IF s = <<>> THEN <<>>
    ELSE IF Len(s) >= 2 /\ s[1] = "'" /\ s[2] = "'"
         THEN <<"'">> \o Unescape(SubSeq(s, 3, Len(s)))
         ELSE <<Head(s)>> \o Unescape(Tail(s))

\* the (restaurant_name, name) pairs of the kids DELETE of an SQL text
DeletedPairs(text) ==
    { <<Unescape(text[i].args[1]), Unescape(text[i].args[2])>> :
        i \in { j \in 1..Len(text) :
                  text[j].s = "  (restaurant_name = '{}' AND name = '{}')" } }

RECURSIVE RowsLeft(_, _)
RowsLeft(rows, pairs) ==
    IF rows = <<>> THEN <<>>
    ELSE LET r  == Head(rows)
             it == r[2]
             byPair == "name" \in DOMAIN it /\ <<r[1], it.name>> \in pairs
             byCalories == /\ "macros" \in DOMAIN it
                           /\ "calories" \in DOMAIN it.macros
                           /\ it.macros.calories <= 100
         IN  (IF byPair \/ byCalories THEN <<>> ELSE <<r>>) \o RowsLeft(Tail(rows), pairs)

\* menu_items after the statements of an SQL text ran on rows
ExecuteSql(rows, text) == RowsLeft(rows, DeletedPairs(Statements(text)))

(* C10.  When menu_items holds one row per item of the menu files, after   *)
(* one apply run and the generated SQL the rows left are the items left    *)
(* in the rewritten files.                                                 *)
C10_DatabaseMatchesFiles ==
    (pc = "done" /\ APPLY /\ firstRun = "none") =>
        ExecuteSql(Rows(disk0, Len(disk0)), sqlFile) = Rows(disk, Len(disk))

====
